---------------------------- MODULE Spec2Model ----------------------------
(***************************************************************************)
(* A model of import_memories.py: the extraction of "bio" memories from a  *)
(* conversation export by a pool of worker tasks, the fetch of the remote  *)
(* memories, the content-keyed reconciliation of the two lists and the     *)
(* sequential apply phase (delete calls, then create calls) against the    *)
(* remote store.                                                           *)
(***************************************************************************)
EXTENDS Integers, Sequences, FiniteSets, TLC

(***************************************************************************)
(* Bounds of the model.                                                    *)
(***************************************************************************)
\* conversations in the export
MaxConvos == 2
\* mapping nodes in the whole export
MaxNodes == 2
\* records held by the remote store before the run
MaxRemote == 2
\* timestamps of the export and of the store range over 1..MaxTime
MaxTime == 2

(***************************************************************************)
(* Values.                                                                 *)
(***************************************************************************)
\* server_id=None (line 92), and the default of the Memory class (line 26)
NoId == 0

\* int(time.time()): the wall clock of the run, later than every timestamp
\* of the export and of the store
Now == MaxTime + 1

\* the texts a message part can hold
Texts == {"a", "b"}

\* class Memory, without the fields no step of the run reads
\* (updated_at, weight, model)
Memory(content, created_at, server_id) ==
    [content |-> content, created_at |-> created_at, server_id |-> server_id]

(***************************************************************************)
(* The export: a list of conversations.  A conversation is a dict with a   *)
(* dict "mapping" of nodes (shape "dict"), or is malformed: not a dict     *)
(* ("notdict"), a dict whose "mapping" is null ("nullmap"), or a dict      *)
(* whose "mapping" is a list ("listmap").                                  *)
(* A node is falsy or holds no message ("nomsg"), is not a dict or holds a *)
(* message that is not one ("malformed"), or holds a message ("msg") with  *)
(* its recipient, its parts, its create_time (0: absent), whether int()    *)
(* and float() accept its create_time, update_time and weight              *)
(* (numeric_ok), and whether its model_slug is a string or absent          *)
(* (model_ok).                                                             *)
(***************************************************************************)
Node(kind, recipient, parts, create_time, numeric_ok, model_ok) ==
    [kind |-> kind, recipient |-> recipient, parts |-> parts,
     create_time |-> create_time, numeric_ok |-> numeric_ok,
     model_ok |-> model_ok]

BioNodes ==
    { Node("msg", "bio", <<t>>, ct, TRUE, TRUE) : t \in Texts, ct \in 1..MaxTime }

Nodes ==
    BioNodes \cup
    { Node("nomsg", "", <<>>, 0, TRUE, TRUE),
      Node("malformed", "", <<>>, 0, TRUE, TRUE),
      Node("msg", "user", <<"a">>, 1, TRUE, TRUE),
      Node("msg", "bio", <<"a">>, 0, TRUE, TRUE),
      Node("msg", "bio", <<>>, 1, TRUE, TRUE),
      Node("msg", "bio", <<"a">>, 1, FALSE, TRUE),
      Node("msg", "bio", <<"a">>, 1, TRUE, FALSE) }

SeqsUpTo(S, n) == UNION { [1..k -> S] : k \in 0..n }

Convo(shape, nodes) == [shape |-> shape, nodes |-> nodes]

Convos ==
    { Convo("dict", ns) : ns \in SeqsUpTo(Nodes, MaxNodes) } \cup
    { Convo(s, <<>>) : s \in {"notdict", "nullmap", "listmap"} }

RECURSIVE SumLen(_)
SumLen(cs) ==
    IF cs = <<>> THEN 0 ELSE Len(Head(cs).nodes) + SumLen(Tail(cs))

Exports ==
    { cs \in SeqsUpTo(Convos, MaxConvos) : SumLen(cs) <= MaxNodes }

(***************************************************************************)
(* The remote store: a list of rows, each with its id, and either valid    *)
(* (content and created_at of the right types) or not convertible to a     *)
(* Memory (valid = FALSE: "content" missing or a field of the wrong type). *)
(***************************************************************************)
Row(id, content, created_at, valid) ==
    [id |-> id, content |-> content, created_at |-> created_at, valid |-> valid]

RowData ==
    { <<t, ct, TRUE>> : t \in Texts, ct \in 1..MaxTime } \cup { <<"a", 1, FALSE>> }

Stores ==
    { [i \in 1..Len(d) |-> Row(i, d[i][1], d[i][2], d[i][3])] :
        d \in SeqsUpTo(RowData, MaxRemote) }

(***************************************************************************)
(* process_conversation                                                    *)
(***************************************************************************)
\* "\n".join(memory_content_list)
RECURSIVE Join(_)
Join(parts) ==
    IF parts = <<>> THEN ""
    ELSE IF Len(parts) = 1 THEN parts[1]
    ELSE parts[1] \o "\n" \o Join(Tail(parts))

\* created_at=int(create_time) if create_time else int(time.time())
CreatedAt(node) == IF node.create_time # 0 THEN node.create_time ELSE Now

\* Mutant: the test of the recipient (line 78) is missing
NodeOutcomeAnyRecipient(node) ==
    IF node.kind = "nomsg" THEN "skip"
    ELSE IF node.kind = "malformed" THEN "raise"
    ELSE IF ~node.numeric_ok THEN "raise"
    ELSE IF ~node.model_ok THEN "invalid"
    ELSE "append"

\* What the loop body does with one node: "skip" (continue), "raise" (an
\* exception that is no ValidationError leaves process_conversation),
\* "invalid" (ValidationError: caught, the record is dropped) or "append".
NodeOutcome(node) ==
    IF node.kind = "nomsg" THEN "skip"
    ELSE IF node.kind = "malformed" THEN "raise"
    ELSE IF node.recipient # "bio" THEN "skip"
    ELSE IF ~node.numeric_ok THEN "raise"
    ELSE IF ~node.model_ok THEN "invalid"
    ELSE "append"

\* The record Memory(...) builds from a "bio" message
NodeMemory(node) == Memory(Join(node.parts), CreatedAt(node), NoId)

\* The loop over mapping.items(): the list of memories so far, or "raise"
RECURSIVE ScanNodes(_, _)
ScanNodes(nodes, memories) ==
    IF nodes = <<>> THEN [raised |-> FALSE, memories |-> memories]
    ELSE LET o == NodeOutcome(Head(nodes)) IN
         IF o = "raise" THEN [raised |-> TRUE, memories |-> <<>>]
         ELSE IF o = "append"
              THEN ScanNodes(Tail(nodes), Append(memories, NodeMemory(Head(nodes))))
              ELSE ScanNodes(Tail(nodes), memories)

\* process_conversation(convo): the future's exception or its result
ProcessConversation(convo) ==
    IF convo.shape # "dict" THEN [raised |-> TRUE, memories |-> <<>>]
    ELSE ScanNodes(convo.nodes, <<>>)

\* len(convo.get("mapping", {})) raises for a conversation that is not a
\* dict and for a mapping that has no len()
LenMappingRaises(convo) == convo.shape \in {"notdict", "nullmap"}

(***************************************************************************)
(* fetch_open_webui_memories: one Memory per row that validates            *)
(***************************************************************************)
\* Mutant: the fetch does not keep the id of the row
FetchParseNoId(rows) ==
    LET kept == SelectSeq(rows, LAMBDA r : r.valid)
    IN  [k \in 1..Len(kept) |-> Memory(kept[k].content, kept[k].created_at, NoId)]

RECURSIVE FetchParse(_)
FetchParse(rows) ==
    IF rows = <<>> THEN <<>>
    ELSE LET r == Head(rows) IN
         IF r.valid
         THEN <<Memory(r.content, r.created_at, r.id)>> \o FetchParse(Tail(rows))
         ELSE FetchParse(Tail(rows))

(***************************************************************************)
(* The content-keyed dicts of __main__.  A dict is a sequence of memories  *)
(* with distinct contents, in insertion order.                             *)
(***************************************************************************)
HasKey(d, content) == \E i \in 1..Len(d) : d[i].content = content

Get(d, content) == d[CHOOSE i \in 1..Len(d) : d[i].content = content]

\* Mutant: a list of pairs instead of a dict, a repeated key is kept twice
PutAppends(d, mem) == Append(d, mem)

\* d[mem.content] = mem
Put(d, mem) ==
    IF HasKey(d, mem.content)
    THEN [i \in 1..Len(d) |-> IF d[i].content = mem.content THEN mem ELSE d[i]]
    ELSE Append(d, mem)

\* for mem in mems: d[mem.content] = mem
RECURSIVE FoldFrom(_, _)
FoldFrom(d, mems) ==
    IF mems = <<>> THEN d ELSE FoldFrom(Put(d, Head(mems)), Tail(mems))

ByContent(mems) == FoldFrom(<<>>, mems)

(***************************************************************************)
(* The two reconcile loops of __main__                                     *)
(***************************************************************************)
\* Mutant: the comparison is turned around
StaleReversed(local_mem, server_mem) == local_mem.created_at > server_mem.created_at

\* Mutant: an equal created_at counts as stale too
StaleOrEqual(local_mem, server_mem) == local_mem.created_at <= server_mem.created_at

\* local_mem.created_at < server_mem.created_at
Stale(local_mem, server_mem) == local_mem.created_at < server_mem.created_at

\* Mutant: the else branch (line 197) deletes the remote-only record
RECURSIVE ServerLoopMirrors(_, _, _, _, _)
ServerLoopMirrors(server_d, local_d, i, to_delete, to_upload) ==
    IF i > Len(server_d) THEN [to_delete |-> to_delete, to_upload |-> to_upload]
    ELSE LET server_mem == server_d[i] IN
         IF ~HasKey(local_d, server_mem.content)
         THEN ServerLoopMirrors(server_d, local_d, i + 1,
                                Append(to_delete, server_mem), to_upload)
         ELSE IF Stale(Get(local_d, server_mem.content), server_mem)
         THEN ServerLoopMirrors(server_d, local_d, i + 1,
                                Append(to_delete, server_mem),
                                Append(to_upload, Get(local_d, server_mem.content)))
         ELSE ServerLoopMirrors(server_d, local_d, i + 1, to_delete, to_upload)

\* Mutant: line 195 is missing, the stale record is deleted and its
\* replacement is not uploaded
RECURSIVE ServerLoopNoReupload(_, _, _, _, _)
ServerLoopNoReupload(server_d, local_d, i, to_delete, to_upload) ==
    IF i > Len(server_d) THEN [to_delete |-> to_delete, to_upload |-> to_upload]
    ELSE LET server_mem == server_d[i] IN
         IF HasKey(local_d, server_mem.content)
              /\ Stale(Get(local_d, server_mem.content), server_mem)
         THEN ServerLoopNoReupload(server_d, local_d, i + 1,
                                   Append(to_delete, server_mem), to_upload)
         ELSE ServerLoopNoReupload(server_d, local_d, i + 1, to_delete, to_upload)

\* for content, server_mem in server_memories_by_content.items(): ...
\* from position i on, with the two lists built so far
RECURSIVE ServerLoop(_, _, _, _, _)
ServerLoop(server_d, local_d, i, to_delete, to_upload) ==
    IF i > Len(server_d) THEN [to_delete |-> to_delete, to_upload |-> to_upload]
    ELSE LET server_mem == server_d[i] IN
         IF HasKey(local_d, server_mem.content)
              /\ Stale(Get(local_d, server_mem.content), server_mem)
         THEN ServerLoop(server_d, local_d, i + 1,
                         Append(to_delete, server_mem),
                         Append(to_upload, Get(local_d, server_mem.content)))
         ELSE ServerLoop(server_d, local_d, i + 1, to_delete, to_upload)

\* Mutant: the test of line 200 is turned around
RECURSIVE LocalLoopInverted(_, _, _, _)
LocalLoopInverted(local_d, server_d, i, to_upload) ==
    IF i > Len(local_d) THEN to_upload
    ELSE IF HasKey(server_d, local_d[i].content)
         THEN LocalLoopInverted(local_d, server_d, i + 1, Append(to_upload, local_d[i]))
         ELSE LocalLoopInverted(local_d, server_d, i + 1, to_upload)

\* Mutant: the loop is left after its first upload
RECURSIVE LocalLoopBreaks(_, _, _, _)
LocalLoopBreaks(local_d, server_d, i, to_upload) ==
    IF i > Len(local_d) THEN to_upload
    ELSE IF ~HasKey(server_d, local_d[i].content)
         THEN Append(to_upload, local_d[i])
         ELSE LocalLoopBreaks(local_d, server_d, i + 1, to_upload)

\* for content, local_mem in local_memories_by_content.items(): ...
RECURSIVE LocalLoop(_, _, _, _)
LocalLoop(local_d, server_d, i, to_upload) ==
    IF i > Len(local_d) THEN to_upload
    ELSE IF ~HasKey(server_d, local_d[i].content)
         THEN LocalLoop(local_d, server_d, i + 1, Append(to_upload, local_d[i]))
         ELSE LocalLoop(local_d, server_d, i + 1, to_upload)

\* Lines 179-201: the two dicts, then the two loops
Plan(local, remote) ==
    LET server_d == ByContent(remote)
        local_d == ByContent(local)
        first == ServerLoop(server_d, local_d, 1, <<>>, <<>>)
    IN  [to_delete |-> first.to_delete,
         to_upload |-> LocalLoop(local_d, server_d, 1, first.to_upload)]

\* Mutant: the two blocks of the apply phase change places
NextPhaseUploadsFirst(phase) ==
    CASE phase = "reconciling" -> "uploading"
      [] phase = "uploading" -> "deleting"
      [] phase = "deleting" -> "done"

\* Lines 203-213: the deletions are applied, then the uploads
NextPhase(phase) ==
    CASE phase = "reconciling" -> "deleting"
      [] phase = "deleting" -> "uploading"
      [] phase = "uploading" -> "done"

(***************************************************************************)
(* The remote store's answer to a successful call                          *)
(***************************************************************************)
\* DELETE /api/v1/memories/{server_id}
StoreDelete(rows, server_id) == SelectSeq(rows, LAMBDA r : r.id # server_id)

\* Mutant: the create call sends no created_at and the store stamps the new
\* row with the time of the call
StoreAddStampsNow(rows, fresh, mem) == Append(rows, Row(fresh, mem.content, Now, TRUE))

\* POST /api/v1/memories/add with content and created_at: a new row under
\* an id no row had before
StoreAdd(rows, fresh, mem) == Append(rows, Row(fresh, mem.content, mem.created_at, TRUE))

(***************************************************************************)
(* State                                                                   *)
(***************************************************************************)
VARIABLES
    conversations,            \* json.load(f): the export
    store,                    \* the rows of the remote store
    next_id,                  \* the id the store gives its next new row
    pc,                       \* where the main thread is
    task,                     \* the state of each submitted future
    all_memories,             \* extract_memories' list
    existing_server_memories, \* what fetch_open_webui_memories returned
    memories_to_delete,
    memories_to_upload,
    idx,                      \* position of the apply loop that runs or runs next
    calls,                    \* the delete and create requests sent so far
    uncaught                  \* the exception that ended the run, if one did

vars == <<conversations, store, next_id, pc, task, all_memories,
          existing_server_memories, memories_to_delete, memories_to_upload,
          idx, calls, uncaught>>

Init ==
    /\ conversations \in Exports
    /\ store \in Stores
    /\ next_id = Len(store) + 1
    /\ pc = "start"
    /\ task = <<>>
    /\ all_memories = <<>>
    /\ existing_server_memories = <<>>
    /\ memories_to_delete = <<>>
    /\ memories_to_upload = <<>>
    /\ idx = 0
    /\ calls = <<>>
    /\ uncaught = "none"

(***************************************************************************)
(* extract_memories                                                        *)
(***************************************************************************)
\* open() or json.load() raises: nothing catches it
ReadExportFails ==
    /\ pc = "start"
    /\ pc' = "aborted"
    /\ uncaught' = "export"
    /\ UNCHANGED <<conversations, store, next_id, task, all_memories,
                   existing_server_memories, memories_to_delete,
                   memories_to_upload, idx, calls>>

\* Line 42 (total_messages), then lines 47-50: every conversation is
\* submitted to the pool
SubmitAll ==
    /\ pc = "start"
    /\ IF \E i \in 1..Len(conversations) : LenMappingRaises(conversations[i])
       THEN pc' = "aborted" /\ uncaught' = "mapping" /\ task' = task
       ELSE pc' = "extracting" /\ uncaught' = uncaught
            /\ task' = [i \in 1..Len(conversations) |-> "pending"]
    /\ UNCHANGED <<conversations, store, next_id, all_memories,
                   existing_server_memories, memories_to_delete,
                   memories_to_upload, idx, calls>>

\* A worker runs process_conversation on conversation i to its end
RunTask(i) ==
    /\ pc = "extracting"
    /\ task[i] = "pending"
    /\ task' = [task EXCEPT ![i] = "finished"]
    /\ UNCHANGED <<conversations, store, next_id, pc, all_memories,
                   existing_server_memories, memories_to_delete,
                   memories_to_upload, idx, calls, uncaught>>

\* Mutant: the merge keeps one record per content
CollectUnique(i) ==
    /\ pc = "extracting"
    /\ task[i] = "finished"
    /\ task' = [task EXCEPT ![i] = "collected"]
    /\ LET res == ProcessConversation(conversations[i])
           Known(m) == \E k \in 1..Len(all_memories) :
                           all_memories[k].content = m.content IN
         all_memories' = IF res.raised THEN all_memories
                         ELSE all_memories \o
                              SelectSeq(res.memories, LAMBDA m : ~Known(m))
    /\ UNCHANGED <<conversations, store, next_id, pc, existing_server_memories,
                   memories_to_delete, memories_to_upload, idx, calls, uncaught>>

\* One turn of the as_completed loop: future i is yielded
Collect(i) ==
    /\ pc = "extracting"
    /\ task[i] = "finished"
    /\ task' = [task EXCEPT ![i] = "collected"]
    /\ LET res == ProcessConversation(conversations[i]) IN
         all_memories' = IF res.raised THEN all_memories
                         ELSE all_memories \o res.memories
    /\ UNCHANGED <<conversations, store, next_id, pc, existing_server_memories,
                   memories_to_delete, memories_to_upload, idx, calls, uncaught>>

\* Mutant: extract_memories returns without waiting for the futures that
\* are left
FinishExtractEarly ==
    /\ pc = "extracting"
    /\ pc' = "fetching"
    /\ UNCHANGED <<conversations, store, next_id, task, all_memories,
                   existing_server_memories, memories_to_delete,
                   memories_to_upload, idx, calls, uncaught>>

\* as_completed is exhausted; the output file is written; return
FinishExtract ==
    /\ pc = "extracting"
    /\ \A i \in 1..Len(task) : task[i] = "collected"
    /\ pc' = "fetching"
    /\ UNCHANGED <<conversations, store, next_id, task, all_memories,
                   existing_server_memories, memories_to_delete,
                   memories_to_upload, idx, calls, uncaught>>

(***************************************************************************)
(* __main__                                                                *)
(***************************************************************************)
\* requests.get or raise_for_status raises: nothing catches it
FetchFails ==
    /\ pc = "fetching"
    /\ pc' = "aborted"
    /\ uncaught' = "fetch"
    /\ UNCHANGED <<conversations, store, next_id, task, all_memories,
                   existing_server_memories, memories_to_delete,
                   memories_to_upload, idx, calls>>

Fetch ==
    /\ pc = "fetching"
    /\ existing_server_memories' = FetchParse(store)
    /\ pc' = "reconciling"
    /\ UNCHANGED <<conversations, store, next_id, task, all_memories,
                   memories_to_delete, memories_to_upload, idx, calls, uncaught>>

\* Lines 179-201
Reconcile ==
    /\ pc = "reconciling"
    /\ LET plan == Plan(all_memories, existing_server_memories) IN
         /\ memories_to_delete' = plan.to_delete
         /\ memories_to_upload' = plan.to_upload
    /\ pc' = NextPhase("reconciling")
    /\ idx' = 1
    /\ UNCHANGED <<conversations, store, next_id, task, all_memories,
                   existing_server_memories, calls, uncaught>>

\* Mutant: delete_memories walks the fetched list in place of the list it
\* was given
DeleteCallWrongList(ok) ==
    /\ pc = "deleting"
    /\ idx <= Len(memories_to_delete)
    /\ LET mem == existing_server_memories[idx] IN
         /\ calls' = Append(calls, [op |-> "delete", mem |-> mem, ok |-> ok])
         /\ store' = IF ok THEN StoreDelete(store, mem.server_id) ELSE store
    /\ idx' = idx + 1
    /\ UNCHANGED <<conversations, next_id, pc, task, all_memories,
                   existing_server_memories, memories_to_delete,
                   memories_to_upload, uncaught>>

\* Mutant: a failed delete call ends the loop (return instead of continue)
DeleteCallAborts(ok) ==
    /\ pc = "deleting"
    /\ idx <= Len(memories_to_delete)
    /\ LET mem == memories_to_delete[idx] IN
         /\ calls' = Append(calls, [op |-> "delete", mem |-> mem, ok |-> ok])
         /\ store' = IF ok THEN StoreDelete(store, mem.server_id) ELSE store
    /\ idx' = IF ok THEN idx + 1 ELSE Len(memories_to_delete) + 1
    /\ UNCHANGED <<conversations, next_id, pc, task, all_memories,
                   existing_server_memories, memories_to_delete,
                   memories_to_upload, uncaught>>

\* delete_open_webui_memory for the idx-th memory to delete: the request
\* succeeds, or raises a RequestException and False is returned
DeleteCall(ok) ==
    /\ pc = "deleting"
    /\ idx <= Len(memories_to_delete)
    /\ LET mem == memories_to_delete[idx] IN
         /\ calls' = Append(calls, [op |-> "delete", mem |-> mem, ok |-> ok])
         /\ store' = IF ok THEN StoreDelete(store, mem.server_id) ELSE store
    /\ idx' = idx + 1
    /\ UNCHANGED <<conversations, next_id, pc, task, all_memories,
                   existing_server_memories, memories_to_delete,
                   memories_to_upload, uncaught>>

\* delete_memories returns (or there was nothing to delete)
FinishDeletes ==
    /\ pc = "deleting"
    /\ idx > Len(memories_to_delete)
    /\ pc' = NextPhase("deleting")
    /\ idx' = 1
    /\ UNCHANGED <<conversations, store, next_id, task, all_memories,
                   existing_server_memories, memories_to_delete,
                   memories_to_upload, calls, uncaught>>

\* add_open_webui_memory for the idx-th memory to upload
UploadCall(ok) ==
    /\ pc = "uploading"
    /\ idx <= Len(memories_to_upload)
    /\ LET mem == memories_to_upload[idx] IN
         /\ calls' = Append(calls, [op |-> "create", mem |-> mem, ok |-> ok])
         /\ store' = IF ok THEN StoreAdd(store, next_id, mem) ELSE store
         /\ next_id' = IF ok THEN next_id + 1 ELSE next_id
    /\ idx' = idx + 1
    /\ UNCHANGED <<conversations, pc, task, all_memories,
                   existing_server_memories, memories_to_delete,
                   memories_to_upload, uncaught>>

\* upload_memories returns (or there was nothing to upload)
FinishUploads ==
    /\ pc = "uploading"
    /\ idx > Len(memories_to_upload)
    /\ pc' = NextPhase("uploading")
    /\ idx' = 1
    /\ UNCHANGED <<conversations, store, next_id, task, all_memories,
                   existing_server_memories, memories_to_delete,
                   memories_to_upload, calls, uncaught>>

Next ==
    \/ ReadExportFails
    \/ SubmitAll
    \/ \E i \in 1..Len(task) : RunTask(i)
    \/ \E i \in 1..Len(task) : Collect(i)
    \/ FinishExtract
    \/ FetchFails
    \/ Fetch
    \/ Reconcile
    \/ \E ok \in BOOLEAN : DeleteCall(ok)
    \/ FinishDeletes
    \/ \E ok \in BOOLEAN : UploadCall(ok)
    \/ FinishUploads

Spec == Init /\ [][Next]_vars

(***************************************************************************)
(* The run from the return of extract_memories on: the export was one      *)
(* well-formed conversation of "bio" messages, whose records, in their     *)
(* order, are the local list; the store is any store.                      *)
(***************************************************************************)
InitExtracted ==
    /\ \E nodes \in SeqsUpTo(BioNodes, MaxNodes) :
           /\ conversations = <<Convo("dict", nodes)>>
           /\ all_memories = ProcessConversation(Convo("dict", nodes)).memories
    /\ task = <<"collected">>
    /\ store \in Stores
    /\ next_id = Len(store) + 1
    /\ pc = "fetching"
    /\ existing_server_memories = <<>>
    /\ memories_to_delete = <<>>
    /\ memories_to_upload = <<>>
    /\ idx = 0
    /\ calls = <<>>
    /\ uncaught = "none"

NextMain ==
    \/ FetchFails
    \/ Fetch
    \/ Reconcile
    \/ \E ok \in BOOLEAN : DeleteCall(ok)
    \/ FinishDeletes
    \/ \E ok \in BOOLEAN : UploadCall(ok)
    \/ FinishUploads

SpecMain == InitExtracted /\ [][NextMain]_vars

(***************************************************************************)
(* The whole run on exports whose conversations hold only plain "bio"      *)
(* messages and malformed nodes, against a store whose rows are all newer  *)
(* copies of one text: what the pool and the main thread do does not       *)
(* depend on more.                                                         *)
(***************************************************************************)
PoolNodes ==
    { Node("msg", "bio", <<t>>, 1, TRUE, TRUE) : t \in Texts } \cup
    { Node("malformed", "", <<>>, 0, TRUE, TRUE) }

PoolConvos ==
    { Convo("dict", ns) : ns \in SeqsUpTo(PoolNodes, MaxNodes) } \cup
    { Convo(s, <<>>) : s \in {"notdict", "nullmap", "listmap"} }

PoolExports ==
    { cs \in SeqsUpTo(PoolConvos, MaxConvos) : SumLen(cs) <= MaxNodes }

PoolStores ==
    { [i \in 1..k |-> Row(i, "a", MaxTime, TRUE)] : k \in 0..MaxRemote }

InitPool ==
    /\ conversations \in PoolExports
    /\ store \in PoolStores
    /\ next_id = Len(store) + 1
    /\ pc = "start"
    /\ task = <<>>
    /\ all_memories = <<>>
    /\ existing_server_memories = <<>>
    /\ memories_to_delete = <<>>
    /\ memories_to_upload = <<>>
    /\ idx = 0
    /\ calls = <<>>
    /\ uncaught = "none"

SpecPool == InitPool /\ [][Next]_vars

(***************************************************************************)
(* extract_memories on an export of one conversation, which is any         *)
(* conversation: what process_conversation returns is what the list holds  *)
(* when extract_memories returns.                                          *)
(***************************************************************************)
ConvoNodes == Nodes \cup { Node("msg", "bio", <<"a", "b">>, 1, TRUE, TRUE) }

InitConvo ==
    /\ conversations \in
           { <<Convo("dict", ns)>> : ns \in SeqsUpTo(ConvoNodes, MaxNodes) } \cup
           { <<Convo(s, <<>>)>> : s \in {"notdict", "nullmap", "listmap"} }
    /\ store = <<>>
    /\ next_id = 1
    /\ pc = "start"
    /\ task = <<>>
    /\ all_memories = <<>>
    /\ existing_server_memories = <<>>
    /\ memories_to_delete = <<>>
    /\ memories_to_upload = <<>>
    /\ idx = 0
    /\ calls = <<>>
    /\ uncaught = "none"

NextExtract ==
    \/ ReadExportFails
    \/ SubmitAll
    \/ \E i \in 1..Len(task) : RunTask(i)
    \/ \E i \in 1..Len(task) : Collect(i)
    \/ FinishExtract

SpecConvo == InitConvo /\ [][NextExtract]_vars

(***************************************************************************)
(* Vocabulary of the properties                                            *)
(***************************************************************************)
ToSet(seq) == { seq[i] : i \in 1..Len(seq) }

ContentsOf(seq) == { seq[i].content : i \in 1..Len(seq) }

\* The record a last-write-wins fold of mems keeps for a content
LastWith(mems, content) ==
    LET at == { i \in 1..Len(mems) : mems[i].content = content }
    IN  mems[CHOOSE i \in at : \A j \in at : j <= i]

\* No two positions of seq hold the same content
DistinctContents(seq) ==
    \A i, j \in 1..Len(seq) : seq[i].content = seq[j].content => i = j

\* The two lists of the plan have been built
Planned == pc \in {"deleting", "uploading", "done"}

LocalKeys == ContentsOf(all_memories)

RemoteKeys == ContentsOf(existing_server_memories)

LocalOf(content) == LastWith(all_memories, content)

ServerOf(content) == LastWith(existing_server_memories, content)

(***************************************************************************)
(* Reconciliation                                                          *)
(***************************************************************************)
\* C1: for every content that is a key of both folded maps, if the local
\* record's created_at is strictly less than the server record's, the
\* server record is in the deletion list and the local record is in the
\* upload list.
StaleMatchChurns ==
    Planned =>
        \A c \in LocalKeys \cap RemoteKeys :
            LocalOf(c).created_at < ServerOf(c).created_at
                => /\ ServerOf(c) \in ToSet(memories_to_delete)
                   /\ LocalOf(c) \in ToSet(memories_to_upload)

StaleMatchReached ==
    /\ Planned
    /\ \E c \in LocalKeys \cap RemoteKeys :
           /\ LocalOf(c).created_at < ServerOf(c).created_at
           /\ ServerOf(c) \in ToSet(memories_to_delete)
           /\ LocalOf(c) \in ToSet(memories_to_upload)

\* C2: every content that is a key of the local map and not of the remote
\* map has its local record in the upload list and no record in the
\* deletion list; with remote empty, the uploads are exactly the distinct
\* local contents, once each, and the deletions are empty.
LocalOnlyUploaded ==
    Planned =>
        /\ \A c \in LocalKeys \ RemoteKeys :
               /\ LocalOf(c) \in ToSet(memories_to_upload)
               /\ c \notin ContentsOf(memories_to_delete)
        /\ existing_server_memories = <<>> =>
               /\ ContentsOf(memories_to_upload) = LocalKeys
               /\ Len(memories_to_upload) = Cardinality(LocalKeys)
               /\ memories_to_delete = <<>>

LocalOnlyReached ==
    /\ Planned
    /\ existing_server_memories # <<>>
    /\ \E c \in LocalKeys \ RemoteKeys : LocalOf(c) \in ToSet(memories_to_upload)

\* C3: for every content present in both folded maps, if the local
\* record's created_at is greater than or equal to the server record's,
\* no record of that content is in the upload list or in the deletion list.
NotStaleUntouched ==
    Planned =>
        \A c \in LocalKeys \cap RemoteKeys :
            LocalOf(c).created_at >= ServerOf(c).created_at
                => /\ c \notin ContentsOf(memories_to_upload)
                   /\ c \notin ContentsOf(memories_to_delete)

NotStaleReached ==
    /\ Planned
    /\ \E c \in LocalKeys \cap RemoteKeys :
           LocalOf(c).created_at = ServerOf(c).created_at
    /\ \E c \in LocalKeys \cap RemoteKeys :
           LocalOf(c).created_at > ServerOf(c).created_at

\* C4: a remote record whose content matches no local record is never in
\* the deletion list, and no delete call is ever sent for it.
RemoteOnlyKept ==
    /\ Planned =>
           \A i \in 1..Len(existing_server_memories) :
               existing_server_memories[i].content \notin LocalKeys
                   => existing_server_memories[i].content
                          \notin ContentsOf(memories_to_delete)
    /\ \A k \in 1..Len(calls) :
           calls[k].op = "delete" => calls[k].mem.content \in LocalKeys

RemoteOnlyReached ==
    /\ pc = "done"
    /\ all_memories = <<>>
    /\ existing_server_memories # <<>>
    /\ calls = <<>>

\* C5: each distinct content appears at most once in the upload list and
\* at most once in the deletion list; the uploads are local records, the
\* deletions are fetched records, and a content is uploaded exactly when
\* it is local-only or deleted.
PlanIsPartition ==
    Planned =>
        /\ DistinctContents(memories_to_upload)
        /\ DistinctContents(memories_to_delete)
        /\ ToSet(memories_to_upload) \subseteq ToSet(all_memories)
        /\ ToSet(memories_to_delete) \subseteq ToSet(existing_server_memories)
        /\ \A c \in LocalKeys :
               c \in ContentsOf(memories_to_upload)
                   <=> (c \notin RemoteKeys \/ c \in ContentsOf(memories_to_delete))

RepeatedContentPlanned ==
    /\ Planned
    /\ ~DistinctContents(all_memories)
    /\ ~DistinctContents(existing_server_memories)
    /\ memories_to_upload # <<>>
    /\ memories_to_delete # <<>>

\* The orders a list of n records can come in
Perms(n) == { f \in [1..n -> 1..n] : \A i, j \in 1..n : f[i] = f[j] => i = j }

Reorder(seq, f) == [i \in 1..Len(seq) |-> seq[f[i]]]

\* The plan of the run selects the same records as the plan of every
\* reordering of the two lists
SamePlanInAnyOrder ==
    \A f \in Perms(Len(all_memories)), g \in Perms(Len(existing_server_memories)) :
        LET plan == Plan(Reorder(all_memories, f), Reorder(existing_server_memories, g))
        IN  /\ ToSet(plan.to_upload) = ToSet(memories_to_upload)
            /\ ToSet(plan.to_delete) = ToSet(memories_to_delete)

\* C6 as stated: the set of uploaded records and the set of deleted
\* records do not depend on the order in which the local list and the
\* remote list present their records.
PlanIgnoresOrder == Planned => SamePlanInAnyOrder

\* C6, amended: the set of uploaded records and the set of deleted records
\* do not depend on the order in which the two lists present their
\* records, provided neither list holds two records with the same content.
PlanIgnoresOrderOfDistinct ==
    (Planned /\ DistinctContents(all_memories)
             /\ DistinctContents(existing_server_memories))
        => SamePlanInAnyOrder

DistinctReordered ==
    /\ Planned
    /\ DistinctContents(all_memories)
    /\ DistinctContents(existing_server_memories)
    /\ Len(all_memories) >= 2
    /\ Len(existing_server_memories) >= 2
    /\ memories_to_upload # <<>>

(***************************************************************************)
(* The apply phase                                                         *)
(***************************************************************************)
AllCallsSucceeded == \A k \in 1..Len(calls) : calls[k].ok

\* The contents the remote store holds in rows that convert to a Memory
StoreKeys == { store[i].content : i \in { j \in 1..Len(store) : store[j].valid } }

\* The records the calls of one kind were sent for, in the order sent
CallMems(op) ==
    LET sent == SelectSeq(calls, LAMBDA c : c.op = op)
    IN  [k \in 1..Len(sent) |-> sent[k].mem]

\* C7: at the end of a run in which every delete call and every create
\* call succeeded, the remote store holds a record for every distinct
\* content of the local records.
Converged ==
    (pc = "done" /\ AllCallsSucceeded) => LocalKeys \subseteq StoreKeys

ConvergedByChurn ==
    /\ pc = "done"
    /\ AllCallsSucceeded
    /\ \E k \in 1..Len(calls) : calls[k].op = "delete"
    /\ \E c \in LocalKeys : c \notin RemoteKeys
    /\ LocalKeys \subseteq StoreKeys

\* C8: all delete calls are issued before the first create call: no
\* create call precedes a delete call.
DeletesBeforeCreates ==
    \A i, j \in 1..Len(calls) :
        (i < j /\ calls[i].op = "create") => calls[j].op = "create"

DeletesThenCreates ==
    /\ pc = "done"
    /\ \E i, j \in 1..Len(calls) :
           i < j /\ calls[i].op = "delete" /\ calls[j].op = "create"

\* The steps the apply phase still has to take: the calls left in the
\* running loop, the return from it, and the whole of the loop after it
StepsLeft ==
    CASE pc = "deleting" ->
             (Len(memories_to_delete) + 1 - idx) + 1 + Len(memories_to_upload) + 1
      [] pc = "uploading" -> (Len(memories_to_upload) + 1 - idx) + 1
      [] OTHER -> 0

\* C9: whatever delete and create calls fail, every record of the deletion
\* list gets exactly one delete call and every record of the upload list
\* exactly one create call, in the order of the lists, and the run reaches
\* its end: it is never stuck before the end, and every step of the apply
\* phase leaves one step less to take.
ApplyIsolatesFailures ==
    /\ [](pc = "done" => /\ CallMems("delete") = memories_to_delete
                         /\ CallMems("create") = memories_to_upload)
    /\ []((Planned /\ pc # "done") => ENABLED NextMain)
    /\ [][Planned => (Planned' /\ StepsLeft' = StepsLeft - 1)]_vars

FailuresPassedOver ==
    /\ pc = "done"
    /\ \E i, j \in 1..Len(calls) :
           i < j /\ calls[i].op = "delete" /\ ~calls[i].ok /\ calls[j].op = "delete"
    /\ \E i, j \in 1..Len(calls) :
           i < j /\ calls[i].op = "create" /\ ~calls[i].ok /\ calls[j].op = "create"

(***************************************************************************)
(* Extraction                                                              *)
(***************************************************************************)
\* extract_memories has returned its list
Extracted ==
    pc \in {"fetching", "reconciling", "deleting", "uploading", "done"}
        \/ uncaught = "fetch"

\* C10: a conversation that fails never aborts extraction and never
\* removes the records of another conversation: whenever some conversation
\* of the export processes without failure, no malformed conversation ends
\* the run, and once extraction has returned its records are in the list.
ConversationFailureIsolated ==
    \A i \in 1..Len(conversations) :
        LET res == ProcessConversation(conversations[i]) IN
        (~res.raised /\ res.memories # <<>>)
            => /\ uncaught # "mapping"
               /\ Extracted => ToSet(res.memories) \subseteq ToSet(all_memories)

\* The records process_conversation returns for the conversations from
\* position i on that it does not fail on, counted
RECURSIVE ReturnedFrom(_)
ReturnedFrom(i) ==
    IF i > Len(conversations) THEN 0
    ELSE LET res == ProcessConversation(conversations[i]) IN
         (IF res.raised THEN 0 ELSE Len(res.memories)) + ReturnedFrom(i + 1)

\* The main thread has gone past extract_memories: it fetches, has
\* fetched, reconciles or applies
PastExtraction ==
    \/ pc \in {"fetching", "reconciling", "deleting", "uploading", "done"}
    \/ uncaught = "fetch"
    \/ existing_server_memories # <<>>
    \/ memories_to_delete # <<>>
    \/ memories_to_upload # <<>>
    \/ calls # <<>>

\* C11: no remote fetch, reconciliation step, delete call or create call
\* happens while a conversation task is pending or running: from the fetch
\* on every submitted task has completed and been collected, and the local
\* list holds every record the tasks returned.
ExtractionBarrier ==
    PastExtraction =>
        /\ Len(task) = Len(conversations)
        /\ \A i \in 1..Len(task) : task[i] = "collected"
        /\ Len(all_memories) = ReturnedFrom(1)

BarrierPassed ==
    /\ pc = "done"
    /\ Len(conversations) >= 2
    /\ Len(all_memories) >= 2
    /\ calls # <<>>

(***************************************************************************)
(* process_conversation, read off the list of a one-conversation export    *)
(***************************************************************************)
\* The node holds a message whose recipient is "bio"
IsBio(node) == node.kind = "msg" /\ node.recipient = "bio"

\* Handling the node raises an exception that is no ValidationError
Raises(node) == node.kind = "malformed" \/ (IsBio(node) /\ ~node.numeric_ok)

\* The parts joined by newlines, for the lists of parts of the exports
JoinedParts(parts) ==
    CASE Len(parts) = 0 -> ""
      [] Len(parts) = 1 -> parts[1]
      [] Len(parts) = 2 -> parts[1] \o "\n" \o parts[2]

\* The first conversation of the export and its nodes
TheConvo == conversations[1]

\* all_memories holds one record for each node of the list, in its order,
\* with the node's joined parts and no server_id
OneRecordFor(nodes) ==
    /\ Len(all_memories) = Len(nodes)
    /\ \A k \in 1..Len(nodes) :
           /\ all_memories[k].content = JoinedParts(nodes[k].parts)
           /\ all_memories[k].server_id = NoId

\* process_conversation has returned a list for the conversation
Returned ==
    /\ pc = "fetching"
    /\ TheConvo.shape = "dict"
    /\ \A k \in 1..Len(TheConvo.nodes) : ~Raises(TheConvo.nodes[k])

OnlyRecordFailures ==
    /\ pc = "fetching"
    /\ TheConvo.shape = "dict"
    /\ \A k \in 1..Len(TheConvo.nodes) : TheConvo.nodes[k].kind # "malformed"

\* The node is a "bio" message whose record can be built
Buildable(node) == IsBio(node) /\ node.numeric_ok /\ node.model_ok

\* C13: when the construction of one record fails because a field cannot be
\* coerced to its type, only that record is dropped: every other "bio"
\* message of the conversation still yields its record.
RecordFailureIsolated ==
    OnlyRecordFailures => OneRecordFor(SelectSeq(TheConvo.nodes, Buildable))

\* How many times m occurs in the list
Count(list, m) == Cardinality({ k \in 1..Len(list) : list[k] = m })

\* What the task of conversation i has handed to the merge so far
Merged(i) ==
    LET res == ProcessConversation(conversations[i]) IN
    IF i <= Len(task) /\ task[i] = "collected" /\ ~res.raised
    THEN res.memories ELSE <<>>

RECURSIVE CountMerged(_, _)
CountMerged(i, m) ==
    IF i > Len(conversations) THEN 0
    ELSE Count(Merged(i), m) + CountMerged(i + 1, m)

RECURSIVE MergedRecords(_)
MergedRecords(i) ==
    IF i > Len(conversations) THEN {}
    ELSE ToSet(Merged(i)) \cup MergedRecords(i + 1)

\* C14: for every completion order of the conversation tasks, the extraction
\* output is the multiset union of the lists returned by the tasks that
\* completed without error: every record occurs in it as many times as in
\* those lists together, duplicates by content included.
FanInIsMultisetUnion ==
    \A m \in ToSet(all_memories) \cup MergedRecords(1) :
        Count(all_memories, m) = CountMerged(1, m)

DuplicatesMerged ==
    /\ pc = "fetching"
    /\ Len(conversations) = 2
    /\ \A i \in 1..2 : Len(ProcessConversation(conversations[i]).memories) = 1
    /\ Len(all_memories) = 2
    /\ all_memories[1] = all_memories[2]

\* C15: every record in the extraction output has non-empty content; a "bio"
\* message whose parts are empty or join to the empty string produces no
\* record.
ContentNeverEmpty ==
    \A k \in 1..Len(all_memories) : all_memories[k].content # ""

(***************************************************************************)
(* server_id                                                               *)
(***************************************************************************)
\* Every record of the list has a server_id
AllRemote(list) == \A k \in 1..Len(list) : list[k].server_id # NoId

\* No record of the list has a server_id
AllLocal(list) == \A k \in 1..Len(list) : list[k].server_id = NoId

OnlyExportFailureAborts == pc = "aborted" => uncaught = "export"

(***************************************************************************)
(* The apply phase                                                         *)
(***************************************************************************)
\* The server_ids of the deletion list
DeletionIds == { memories_to_delete[k].server_id : k \in 1..Len(memories_to_delete) }

\* Every call so far was sent for a record of its list
CallsWithinLists ==
    /\ ToSet(CallMems("delete")) \subseteq ToSet(memories_to_delete)
    /\ ToSet(CallMems("create")) \subseteq ToSet(memories_to_upload)

\* The store holds the row the fetch built mem from, as it was
StillStored(mem) ==
    \E r \in ToSet(store) :
        /\ r.id = mem.server_id
        /\ r.content = mem.content
        /\ r.created_at = mem.created_at

\* At the end of the run every fetched record outside the deletion list is
\* in the store as it was fetched
KeptAtEnd ==
    pc = "done" =>
        \A m \in ToSet(existing_server_memories) :
            m.server_id \notin DeletionIds => StillStored(m)

\* A step takes no row out of the store, and changes none, but rows whose
\* id is a server_id of the deletion list
RowsOutsideDeletionsStay ==
    \A r \in ToSet(store) : r.id \notin DeletionIds => r \in ToSet(store')

\* C18: delete calls are issued only for records of the deletion list and
\* create calls only for records of the upload list, so whichever calls
\* fail, every remote record that is not in the deletion list is still in
\* the remote store, unchanged, at the end of the run.
ApplyFrame ==
    /\ [](CallsWithinLists /\ KeptAtEnd)
    /\ [][RowsOutsideDeletionsStay]_vars

\* The run ended having deleted a record and kept another beside it
DeletedBesideKept ==
    /\ pc = "done"
    /\ \E k \in 1..Len(calls) : calls[k].op = "delete" /\ calls[k].ok
    /\ \E k \in 1..Len(calls) : ~calls[k].ok
    /\ \E m \in ToSet(existing_server_memories) :
           m.server_id \notin DeletionIds /\ StillStored(m)

\* A call of the kind, with the outcome, was sent for a record of the content
Called(op, content, ok) ==
    \E k \in 1..Len(calls) :
        /\ calls[k].op = op
        /\ calls[k].mem.content = content
        /\ calls[k].ok = ok

\* The contents that were fetched and that no row of the store holds now
Vanished == RemoteKeys \ { store[k].content : k \in 1..Len(store) }

\* C19: every record in the deletion list has a record with the same
\* content in the upload list, and the deletion list is never longer than
\* the upload list; so a remote content is gone from the remote store at
\* the end of the run only if its delete call succeeded and its paired
\* create call failed.
DeletionsPaired ==
    /\ ContentsOf(memories_to_delete) \subseteq ContentsOf(memories_to_upload)
    /\ Len(memories_to_delete) <= Len(memories_to_upload)
    /\ pc = "done" =>
           \A c \in Vanished :
               /\ Called("delete", c, TRUE)
               /\ Called("create", c, FALSE)
               /\ ~Called("create", c, TRUE)

ContentVanished ==
    /\ pc = "done"
    /\ Vanished # {}
    /\ Len(memories_to_upload) > Len(memories_to_delete)

(***************************************************************************)
(* A second run                                                            *)
(***************************************************************************)
\* What a run on the same export would plan against the store as it is now
PlanAgain == Plan(all_memories, FetchParse(store))

\* C20: if the remote store had one record per content and every delete
\* and create call of the run succeeded, the store keeping the created_at
\* each create call sent, then reconciling the same local records against
\* the resulting store yields an empty upload list and an empty deletion
\* list.
SyncIsFixedPoint ==
    (pc = "done" /\ AllCallsSucceeded /\ DistinctContents(existing_server_memories))
        => /\ PlanAgain.to_upload = <<>>
           /\ PlanAgain.to_delete = <<>>

SyncedByBothPhases ==
    /\ pc = "done"
    /\ AllCallsSucceeded
    /\ DistinctContents(existing_server_memories)
    /\ CallMems("delete") # <<>>
    /\ Len(CallMems("create")) > Len(CallMems("delete"))

=============================================================================
